---- MODULE Spec2Model ----
(***************************************************************************)
(* A model of asp::camera::OpticalBarModel (src/asp/Camera/                *)
(* OpticalBarModel.cc): the parameter set of one camera, its projection    *)
(* operations, the rigid transform and the text codec (read / write).      *)
(*                                                                         *)
(* Number domains.  Real parameters are integers of the model; a time or a *)
(* camera centre is an exact fraction.  Angles that fix a rotation are     *)
(* multiples of a quarter turn (forward tilt) or rotations of the cube     *)
(* group (orientation), so every rotation matrix is an integer matrix.     *)
(* IEEE-754 results that may be infinite or NaN are kept as classes        *)
(* ("zero", "nz", "inf", "nan").                                           *)
(***************************************************************************)
EXTENDS Integers, Sequences, FiniteSets, TLC

VARIABLES cam, file, out, old, base, damage, ver, nxf

vars == <<cam, file, out, old, base, damage, ver, nxf>>

(***************************  bounds of the model  *************************)
\* how many rigid transforms one behaviour applies
MaxTransforms == 1
\* the largest version number an edited first line carries
MaxVersion == 5
\* the largest solver status the solver reports
MaxStatus == 2

(*****************************  arithmetic  ********************************)
\* F applied to the value of x, which is computed once
Bind(x, F(_)) == CHOOSE v \in { F(y) : y \in {x} } : TRUE

Abs(n) == IF n < 0 THEN -n ELSE n

RECURSIVE GCD(_, _)
GCD(a, b) == IF b = 0 THEN Abs(a) ELSE GCD(b, a % b)

\* the fraction n/d in lowest terms with a positive denominator
RatOf(n, d, g) ==
  IF d < 0 THEN [n |-> (0 - n) \div g, d |-> (0 - d) \div g]
  ELSE [n |-> n \div g, d |-> d \div g]
Rat(n, d) ==
  Bind(<<n, d>>, LAMBDA p :
    Bind(GCD(Abs(p[1]), Abs(p[2])), LAMBDA g : RatOf(p[1], p[2], g)))

RatMul(a, b) ==
  Bind(<<a, b>>, LAMBDA p : Rat(p[1].n * p[2].n, p[1].d * p[2].d))
RatLeq(a, b) == a.n * b.d <= b.n * a.d

Dot(u, v) == u[1] * v[1] + u[2] * v[2] + u[3] * v[3]
VecAdd(u, v) == <<u[1] + v[1], u[2] + v[2], u[3] + v[3]>>
VecScale(k, u) == <<k * u[1], k * u[2], k * u[3]>>
MatVec(m, v) ==
  Bind(<<m, v>>, LAMBDA p : <<Dot(p[1][1], p[2]), Dot(p[1][2], p[2]),
                              Dot(p[1][3], p[2])>>)
Col(m, j) == <<m[1][j], m[2][j], m[3][j]>>
MatRow(r, b) == <<Dot(r, Col(b, 1)), Dot(r, Col(b, 2)), Dot(r, Col(b, 3))>>
MatMul(a, b) ==
  Bind(<<a, b>>, LAMBDA p : <<MatRow(p[1][1], p[2]), MatRow(p[1][2], p[2]),
                              MatRow(p[1][3], p[2])>>)

\* a vector of fractions with one common denominator, in lowest terms
RatVecOf(num, den, g) ==
  [num |-> <<num[1] \div g, num[2] \div g, num[3] \div g>>, den |-> den \div g]
RatVec(num, den) ==
  Bind(<<num, den>>, LAMBDA p :
    Bind(GCD(GCD(GCD(Abs(p[1][1]), Abs(p[1][2])), Abs(p[1][3])), p[2]),
         LAMBDA g : RatVecOf(p[1], p[2], g)))

(*****************************  rotations  *********************************)
\* cosine and sine of k quarter turns
CosQ(k) == <<1, 0, -1, 0>>[(k % 4) + 1]
SinQ(k) == <<0, 1, 0, -1>>[(k % 4) + 1]

\* vw::math::rotation_x_axis, the angle counted in quarter turns
rotation_x_axis(k) ==
  << <<1, 0, 0>>, <<0, CosQ(k), -SinQ(k)>>, <<0, SinQ(k), CosQ(k)>> >>

\* vw::math::rotation_z_axis, the angle counted in quarter turns
rotation_z_axis(k) ==
  << <<CosQ(k), -SinQ(k), 0>>, <<SinQ(k), CosQ(k), 0>>, <<0, 0, 1>> >>

NonZeros(a) == Cardinality({i \in 1..3 : a[i] # 0})

\* An axis-angle vector of the cube group: a direction with entries in
\* -1..1 and the angle in degrees.
AxisAngles ==
  { [axis |-> <<0, 0, 0>>, deg |-> 0] } \cup
  { [axis |-> a, deg |-> d] :
      a \in { v \in (-1..1) \X (-1..1) \X (-1..1) : NonZeros(v) = 1 },
      d \in {90, 180, 270} } \cup
  { [axis |-> a, deg |-> d] :
      a \in { v \in (-1..1) \X (-1..1) \X (-1..1) : NonZeros(v) = 3 },
      d \in {120, 240} } \cup
  { [axis |-> a, deg |-> 180] :
      a \in { v \in (-1..1) \X (-1..1) \X (-1..1) : NonZeros(v) = 2 } }

\* vw::math::axis_angle_to_quaternion: (cos(t/2), sin(t/2) * axis / |axis|),
\* scaled by a positive factor so that the entries are integers.
axis_angle_to_quaternion(aa) ==
  LET a == aa.axis
      w == CASE aa.deg = 0 -> 1
             [] aa.deg = 90 -> 1
             [] aa.deg = 120 -> 1
             [] aa.deg = 180 -> 0
             [] aa.deg = 240 -> -1
             [] aa.deg = 270 -> -1
  IN  <<w, a[1], a[2], a[3]>>

\* Quaternion::rotation_matrix of a quaternion given up to a positive factor
RotationOf(w, x, y, z, n) ==
      << << (w*w + x*x - y*y - z*z) \div n, (2 * (x*y - w*z)) \div n,
            (2 * (x*z + w*y)) \div n >>,
         << (2 * (x*y + w*z)) \div n, (w*w - x*x + y*y - z*z) \div n,
            (2 * (y*z - w*x)) \div n >>,
         << (2 * (x*z - w*y)) \div n, (2 * (y*z + w*x)) \div n,
            (w*w - x*x - y*y + z*z) \div n >> >>
rotation_matrix(q) ==
  Bind(q, LAMBDA p :
    RotationOf(p[1], p[2], p[3], p[4],
               p[1] * p[1] + p[2] * p[2] + p[3] * p[3] + p[4] * p[4]))

\* Hamilton product of two quaternions
QuatProduct(p, q) ==
  << p[1]*q[1] - p[2]*q[2] - p[3]*q[3] - p[4]*q[4],
     p[1]*q[2] + p[2]*q[1] + p[3]*q[4] - p[4]*q[3],
     p[1]*q[3] - p[2]*q[4] + p[3]*q[1] + p[4]*q[2],
     p[1]*q[4] + p[2]*q[3] - p[3]*q[2] + p[4]*q[1] >>
QuatMul(p, q) == Bind(<<p, q>>, LAMBDA a : QuatProduct(a[1], a[2]))

\* one axis-angle vector per rotation: the angle at most a half turn, and
\* for a half turn the axis whose first nonzero entry is positive
FirstNonZero(a) == IF a[1] # 0 THEN a[1] ELSE IF a[2] # 0 THEN a[2] ELSE a[3]
CanonAxisAngles ==
  { aa \in AxisAngles :
      /\ aa.deg <= 180
      /\ aa.deg = 180 => FirstNonZero(aa.axis) > 0 }

\* Quaternion::axis_angle: the axis-angle vector of the quaternion's rotation
axis_angle(q) ==
  Bind(rotation_matrix(q), LAMBDA m :
    CHOOSE aa \in CanonAxisAngles :
      rotation_matrix(axis_angle_to_quaternion(aa)) = m)

\* Quaternion(Matrix3x3): the quaternion of a rotation matrix
QuatOfMatrix(m) ==
  Bind(m, LAMBDA a :
    axis_angle_to_quaternion(
      CHOOSE aa \in CanonAxisAngles :
        rotation_matrix(axis_angle_to_quaternion(aa)) = a))

IsRotation(m) ==
  \E aa \in CanonAxisAngles : rotation_matrix(axis_angle_to_quaternion(aa)) = m

(**********************  IEEE-754 classes of a double  *********************)
\* "zero", "nz" (finite, not zero), "fin" (finite), "inf", "nan"
ClsOfInt(n) == IF n = 0 THEN "zero" ELSE "nz"

ClsMul(a, b) ==
  CASE a = "nan" \/ b = "nan" -> "nan"
    [] (a = "inf" /\ b = "zero") \/ (a = "zero" /\ b = "inf") -> "nan"
    [] a = "inf" \/ b = "inf" -> "inf"
    [] a = "zero" \/ b = "zero" -> "zero"
    [] a = "nz" /\ b = "nz" -> "nz"
    [] OTHER -> "fin"

ClsDiv(a, b) ==
  CASE a = "nan" \/ b = "nan" -> "nan"
    [] a = "zero" /\ b = "zero" -> "nan"
    [] a = "inf" /\ b = "inf" -> "nan"
    [] a = "inf" -> "inf"
    [] b = "inf" -> "zero"
    [] b = "zero" -> "inf"
    [] a = "zero" -> "zero"
    [] a = "nz" /\ b = "nz" -> "nz"
    [] OTHER -> "fin"

ClsAdd(a, b) ==
  CASE a = "nan" \/ b = "nan" -> "nan"
    [] a = "inf" \/ b = "inf" -> "inf"
    [] a = "zero" -> b
    [] b = "zero" -> a
    [] OTHER -> "fin"

\* the class of norm_2 of a vector of classes
ClsNorm(r) ==
  CASE \E i \in 1..3 : r[i] = "nan" -> "nan"
    [] \E i \in 1..3 : r[i] = "inf" -> "inf"
    [] \E i \in 1..3 : r[i] = "nz" -> "nz"
    [] \A i \in 1..3 : r[i] = "zero" -> "zero"
    [] OTHER -> "fin"

\* vw::math::normalize: r / norm_2(r)
normalize(r) ==
  Bind(r, LAMBDA v :
    Bind(ClsNorm(v), LAMBDA n : <<ClsDiv(v[1], n), ClsDiv(v[2], n), ClsDiv(v[3], n)>>))

\* Quaternion::rotate by a rotation of the cube group: a NaN entry reaches
\* every entry of the product, otherwise the entries are permuted
Permuted(m, r) ==
  IF \E i \in 1..3 : r[i] = "nan"
  THEN <<"nan", "nan", "nan">>
  ELSE << r[CHOOSE j \in 1..3 : m[1][j] # 0],
          r[CHOOSE j \in 1..3 : m[2][j] # 0],
          r[CHOOSE j \in 1..3 : m[3][j] # 0] >>
QuatRotate(q, r) ==
  Bind(<<rotation_matrix(q), r>>, LAMBDA a : Permuted(a[1], a[2]))

Defined(dir) == \A i \in 1..3 : dir[i] \notin {"nan", "inf"}

(****************************  the camera  *********************************)
\* the pixel a call without a pixel argument is evaluated at
DefaultPixel == <<0, 0>>

\* lines 36-40
pixel_to_sensor_plane(c, pixel) ==
  << (pixel[1] - c.center_loc_pixels[1]) * c.pixel_size,
     (pixel[2] - c.center_loc_pixels[2]) * c.pixel_size >>

\* the direction test inverted
ScanFractionRightToLeft(c) == ~c.scan_left_to_right

\* the scan direction test of pixel_to_time_delta, line 51
ScanFractionLeftToRight(c) == c.scan_left_to_right

\* lines 42-57
pixel_to_time_delta(c, pix) ==
  LET scan_time == Rat(c.scan_angle_radians, c.scan_rate_radians)
      max_col == c.image_size[1] - 1
      scan_fraction == IF ScanFractionLeftToRight(c)
                       THEN Rat(pix[1], max_col)
                       ELSE Rat(max_col - pix[1], max_col)
  IN  RatMul(scan_fraction, scan_time)

\* lines 81-84
camera_pose(c, pix) == axis_angle_to_quaternion(c.initial_orientation)

\* lines 59-71
get_velocity(c, pixel) ==
  LET pose == rotation_matrix(camera_pose(c, pixel))
      m == MatMul(rotation_x_axis(0 - c.forward_tilt_radians), pose)
  IN  MatVec(m, <<0, c.speed, 0>>)

\* lines 73-78
camera_center(c, pix) ==
  Bind(pixel_to_time_delta(c, pix), LAMBDA dt :
    Bind(get_velocity(c, pix), LAMBDA velocity :
      RatVec(VecAdd(VecScale(dt.d, c.initial_position),
                    VecScale(dt.n, velocity)), dt.d)))

\* the sign of H = norm_2(cam_center) - (elevation + radius), line 96
HSignOf(ctr, k) ==
  LET n2 == Dot(ctr.num, ctr.num)
      k2 == k * k * ctr.den * ctr.den
  IN  IF k < 0 \/ n2 > k2 THEN 1 ELSE IF n2 = k2 THEN 0 ELSE -1
HSign(c, pixel) ==
  Bind(camera_center(c, pixel), LAMBDA ctr :
    HSignOf(ctr, c.mean_surface_elevation + c.mean_earth_radius))

\* lines 101-108: the class of image_motion_compensation
ImageMotionCompensation(c, H, sin_alpha) ==
  ClsMul(ClsMul(ClsDiv(ClsOfInt(c.focal_length * c.speed),
                       ClsMul(H, ClsOfInt(c.scan_rate_radians))),
                sin_alpha),
         ClsOfInt(c.use_motion_compensation))

\* lines 114-117: the ray in the camera frame, normalized
LocalRay(c, sensor_plane_pos, sin_alpha, cos_alpha, image_motion_compensation) ==
  normalize(<< ClsMul(ClsOfInt(c.focal_length), sin_alpha),
               ClsAdd(ClsOfInt(sensor_plane_pos[2]), image_motion_compensation),
               ClsMul(ClsOfInt(c.focal_length), cos_alpha) >>)

\* lines 86-139
pixel_to_vector_uncorrected(c, pixel) ==
  Bind(pixel_to_sensor_plane(c, pixel), LAMBDA sensor_plane_pos :
    Bind(ClsOfInt(Rat(sensor_plane_pos[1], c.focal_length).n), LAMBDA sin_alpha :
      Bind(ImageMotionCompensation(c, ClsOfInt(HSign(c, pixel)), sin_alpha),
           LAMBDA image_motion_compensation :
        [pixel |-> pixel,
         dir |-> QuatRotate(camera_pose(c, pixel),
                            LocalRay(c, sensor_plane_pos, sin_alpha, "nz",
                                     image_motion_compensation)),
         applied |-> <<>>])))

\* the external corrections: each returns the ray it was given, corrected
apply_atmospheric_refraction_correction(ctr, radius, elevation, ray) ==
  [ray EXCEPT !.applied = Append(@, "atmospheric_refraction")]

apply_velocity_aberration_correction(ctr, velocity, radius, ray) ==
  [ray EXCEPT !.applied = Append(@, "velocity_aberration")]

NoValue == [none |-> TRUE]
NoErr == [kind |-> "none", msg |-> "none"]

\* the exception an external stage raises (vw_throw of a vw::Exception)
StageErr(stage) == [kind |-> "vw::Exception", msg |-> stage]

\* lines 146 and 150: the tests that gate the two corrections
AtmosphericGate(c) == ~c.correct_atmospheric_refraction
VelocityGate(c) == c.correct_velocity_aberration

\* the handler throwing on what it caught
RepackageForward(e) == e

\* lines 156-160: the handler of the try block
Repackage(e) == [kind |-> "PixelToRayErr", msg |-> e.msg]

\* lines 146-148: the ray after the atmospheric stage
AfterAtmospheric(c, cam_ctr, unc) ==
  IF AtmosphericGate(c)
  THEN apply_atmospheric_refraction_correction(cam_ctr,
         c.mean_earth_radius, c.mean_surface_elevation, unc)
  ELSE unc

\* the calls to the external corrections made so far
AtmosphericCall(c, unc) ==
  IF AtmosphericGate(c) THEN <<[fn |-> "atmospheric_refraction", ray |-> unc]>>
  ELSE <<>>
VelocityCall(ray) == <<[fn |-> "velocity_aberration", ray |-> ray]>>

\* lines 145-154, after the uncorrected ray is there
PixelToVectorStages(c, pixel, fault, cam_ctr, unc, afterAtm) ==
  IF AtmosphericGate(c) /\ fault = "atmospheric_refraction"
  THEN [ret |-> NoValue, exc |-> StageErr(fault),
        calls |-> AtmosphericCall(c, unc)]
  ELSE IF ~VelocityGate(c)
  THEN [ret |-> afterAtm, exc |-> NoErr, calls |-> AtmosphericCall(c, unc)]
  ELSE IF fault = "velocity_aberration"
  THEN [ret |-> NoValue, exc |-> StageErr(fault),
        calls |-> AtmosphericCall(c, unc) \o VelocityCall(afterAtm)]
  ELSE [ret |-> apply_velocity_aberration_correction(cam_ctr,
                  get_velocity(c, pixel), c.mean_earth_radius, afterAtm),
        exc |-> NoErr,
        calls |-> AtmosphericCall(c, unc) \o VelocityCall(afterAtm)]

\* lines 143-154, the body of the try block; fault names the stage that
\* raises, if it runs
PixelToVectorBody(c, pixel, fault) ==
  IF fault = "uncorrected"
  THEN [ret |-> NoValue, exc |-> StageErr(fault), calls |-> <<>>]
  ELSE Bind(pixel_to_vector_uncorrected(c, pixel), LAMBDA unc :
         Bind(camera_center(c, pixel), LAMBDA cam_ctr :
           Bind(AfterAtmospheric(c, cam_ctr, unc), LAMBDA afterAtm :
             PixelToVectorStages(c, pixel, fault, cam_ctr, unc, afterAtm))))

\* lines 141-161
pixel_to_vector(c, pixel, fault) ==
  Bind(PixelToVectorBody(c, pixel, fault), LAMBDA b :
    IF b.exc = NoErr
    THEN [ret |-> b.ret, err |-> NoErr, calls |-> b.calls]
    ELSE [ret |-> NoValue, err |-> Repackage(b.exc), calls |-> b.calls])

\* line 169: the initial guess of the solver
StartGuess(c) == <<Rat(c.image_size[1], 2), Rat(c.image_size[2], 2)>>

\* the test accepting a status of zero
StatusNotNegative(status) == status >= 0

\* line 179: the test of VW_ASSERT
StatusOK(status) == status > 0

\* lines 163-183; status and solution are what the solver reports
point_to_pixel(c, point, status, solution) ==
  LET call == [fn |-> "levenberg_marquardt", start |-> StartGuess(c),
               point |-> point]
  IN  IF StatusOK(status)
      THEN [ret |-> solution, err |-> NoErr, calls |-> <<call>>]
      ELSE [ret |-> NoValue,
            err |-> [kind |-> "PointToPixelErr",
                     msg |-> "Unable to project point into Linescan model"],
            calls |-> <<call>>]

\* the setters apply_transform calls
set_camera_center(c, position) == [c EXCEPT !.initial_position = position]
set_camera_pose(c, pose) == [c EXCEPT !.initial_orientation = pose]

\* the transform scaling the speed with the position
apply_transform_scaling_speed(c, rotation, translation, scale) ==
  Bind(camera_center(c, DefaultPixel).num, LAMBDA position :
    [c EXCEPT !.initial_position =
                VecAdd(VecScale(scale, MatVec(rotation, position)), translation),
              !.initial_orientation =
                axis_angle(QuatMul(QuatOfMatrix(rotation),
                                   camera_pose(c, DefaultPixel))),
              !.speed = scale * @])

\* lines 185-200; the position is a lattice point at the default pixel
apply_transform(c, rotation, translation, scale) ==
  Bind(camera_center(c, DefaultPixel).num, LAMBDA position :
    Bind(camera_pose(c, DefaultPixel), LAMBDA pose :
      Bind(QuatOfMatrix(rotation), LAMBDA rotation_quaternion :
        set_camera_pose(
          set_camera_center(c,
            VecAdd(VecScale(scale, MatVec(rotation, position)), translation)),
          axis_angle(QuatMul(rotation_quaternion, pose))))))

(*****************************  the codec  *********************************)
\* A file is a sequence of lines, each ended by a newline; a line is a
\* sequence of tokens separated by blanks; a token is a word, a number
\* written as its characters, or (the version tag) a word followed by a
\* number.
Word(s) == [w |-> s, c |-> <<>>]
Num(chars) == [w |-> "", c |-> chars]

DigitChars == <<"0", "1", "2", "3", "4", "5", "6", "7", "8", "9">>
IsDigit(ch) == \E d \in 1..10 : DigitChars[d] = ch
DigitVal(ch) == (CHOOSE d \in 1..10 : DigitChars[d] = ch) - 1

RECURSIVE NatToChars(_)
NatToChars(n) ==
  IF n < 10 THEN <<DigitChars[n + 1]>>
  ELSE NatToChars(n \div 10) \o <<DigitChars[(n % 10) + 1]>>

\* operator<< of an int, or of a double under setprecision(17), line 355
Fmt(n) == Num(IF n < 0 THEN <<"-">> \o NatToChars(0 - n) ELSE NatToChars(n))

\* how many of the characters of s from position i on are digits
RECURSIVE LeadDigits(_, _)
LeadDigits(s, i) ==
  IF i > Len(s) \/ ~IsDigit(s[i]) THEN 0 ELSE 1 + LeadDigits(s, i + 1)

\* the value of the k digits of s that start at position i
RECURSIVE DigitsValue(_, _, _)
DigitsValue(s, i, k) ==
  IF k = 0 THEN 0
  ELSE 10 * DigitsValue(s, i, k - 1) + DigitVal(s[i + k - 1])

\* one %d or %lf conversion of sscanf on the characters s: whether it
\* converts, the value, and whether characters are left over
ScanNumberAt(s, neg, i) ==
  Bind(LeadDigits(s, i), LAMBDA k :
    [ok |-> k > 0,
     val |-> IF neg THEN 0 - DigitsValue(s, i, k) ELSE DigitsValue(s, i, k),
     rest |-> i + k - 1 < Len(s)])
ScanNumber(s) ==
  IF Len(s) > 0 /\ s[1] = "-" THEN ScanNumberAt(s, TRUE, 2)
  ELSE ScanNumberAt(s, FALSE, 1)

\* the conversions j..n of sscanf(line, "key = %.. %..", ...): the values
\* converted before the first mismatch
RECURSIVE Convert(_, _, _)
Convert(line, j, n) ==
  IF j > n \/ Len(line) < j + 2 THEN <<>>
  ELSE Bind(ScanNumber(line[j + 2].c), LAMBDA r :
         IF ~r.ok THEN <<>>
         ELSE IF r.rest THEN <<r.val>>
         ELSE <<r.val>> \o Convert(line, j + 1, n))

\* sscanf(line, "key = <n conversions>"): the values assigned, in order
Sscanf(line, key, n) ==
  IF Len(line) >= 2 /\ line[1] = Word(key) /\ line[2] = Word("=")
  THEN Convert(line, 1, n)
  ELSE <<>>

\* std::getline of line i: at the end of the file the string is erased and
\* the stream is no longer good; on a stream that is no longer good the
\* string keeps what it held
GetLine(f, i, prev) ==
  IF i <= Len(f) THEN [line |-> f[i], good |-> TRUE]
  ELSE IF i = Len(f) + 1 THEN [line |-> <<>>, good |-> FALSE]
  ELSE [line |-> prev, good |-> FALSE]

\* the field lines that read parses with sscanf, in the order of the file
Fields == <<
  [key |-> "image_size", n |-> 2,
   msg |-> "OpticalBarModel::read_file(): Could not read the image size"],
  [key |-> "image_center", n |-> 2,
   msg |-> "OpticalBarModel::read_file(): Could not read the image center"],
  [key |-> "pitch", n |-> 1,
   msg |-> "OpticalBarModel::read_file(): Could not read the pixel pitch"],
  [key |-> "f", n |-> 1,
   msg |-> "OpticalBarModel::read_file(): Could not read the focal_length"],
  [key |-> "scan_angle", n |-> 1,
   msg |-> "OpticalBarModel::read_file(): Could not read the scan angle"],
  [key |-> "scan_rate", n |-> 1,
   msg |-> "OpticalBarModel::read_file(): Could not read the scan rate"],
  [key |-> "forward_tilt", n |-> 1,
   msg |-> "OpticalBarModel::read_file(): Could not read the forward tilt angle"],
  [key |-> "iC", n |-> 3,
   msg |-> "OpticalBarModel::read_file(): Could not read the initial position"],
  [key |-> "iR", n |-> 9,
   msg |-> "PinholeModel::read_file(): Could not read the rotation matrix"],
  [key |-> "speed", n |-> 1,
   msg |-> "OpticalBarModel::read_file(): Could not read the speed"],
  [key |-> "mean_earth_radius", n |-> 1,
   msg |-> "OpticalBarModel::read_file(): Could not read the mean earth radius"],
  [key |-> "mean_surface_elevation", n |-> 1,
   msg |-> "OpticalBarModel::read_file(): Could not read the mean surface elevation"],
  [key |-> "use_motion_compensation", n |-> 1,
   msg |-> "OpticalBarModel::read_file(): Could not read use motion compensation"] >>

\* the first entries of vec replaced by the values sscanf assigned
PutVec(vec, vals) ==
  IF Len(vals) >= Len(vec) THEN SubSeq(vals, 1, Len(vec))
  ELSE vals \o SubSeq(vec, Len(vals) + 1, Len(vec))

PutOne(x, vals) == IF Len(vals) >= 1 THEN vals[1] ELSE x

\* the members sscanf stores into at field k, and the conversions that
\* follow a complete line (lines 292-293 and 334)
Assign(c, k, vals) ==
  CASE k = 1 -> [c EXCEPT !.image_size = PutVec(@, vals)]
    [] k = 2 -> [c EXCEPT !.center_loc_pixels = PutVec(@, vals)]
    [] k = 3 -> [c EXCEPT !.pixel_size = PutOne(@, vals)]
    [] k = 4 -> [c EXCEPT !.focal_length = PutOne(@, vals)]
    [] k = 5 -> [c EXCEPT !.scan_angle_radians = PutOne(@, vals)]
    [] k = 6 -> [c EXCEPT !.scan_rate_radians = PutOne(@, vals)]
    [] k = 7 -> [c EXCEPT !.forward_tilt_radians = PutOne(@, vals)]
    [] k = 8 -> [c EXCEPT !.initial_position = PutVec(@, vals)]
    [] k = 9 -> IF Len(vals) = 9
                THEN [c EXCEPT !.initial_orientation =
                        axis_angle(QuatOfMatrix(
                          << <<vals[1], vals[2], vals[3]>>,
                             <<vals[4], vals[5], vals[6]>>,
                             <<vals[7], vals[8], vals[9]>> >>))]
                ELSE c
    [] k = 10 -> [c EXCEPT !.speed = PutOne(@, vals)]
    [] k = 11 -> [c EXCEPT !.mean_earth_radius = PutOne(@, vals)]
    [] k = 12 -> [c EXCEPT !.mean_surface_elevation = PutOne(@, vals)]
    [] k = 13 -> IF Len(vals) = 1
                 THEN [c EXCEPT !.use_motion_compensation = vals[1]]
                 ELSE c

IOErr(msg) == [kind |-> "IOErr", msg |-> msg]
ArgumentErr(msg) == [kind |-> "ArgumentErr", msg |-> msg]

\* line.find(words): the words occur in the line, one after the other
Find3(line, a, b, d) ==
  \E i \in 1..Len(line) :
    /\ i + 2 <= Len(line)
    /\ line[i] = Word(a) /\ line[i + 1] = Word(b) /\ line[i + 2] = Word(d)

\* lines 336-337
ReadScanDir(c, f, prev) ==
  LET g == GetLine(f, Len(Fields) + 3, prev)
  IN  [c EXCEPT !.scan_left_to_right = ~Find3(g.line, "scan_dir", "=", "left")]

\* a line accepted once sscanf assigned any value
FieldRejectedIfEmpty(good, vals, k) == ~good \/ Len(vals) = 0

\* whether field k's line is rejected, lines 231, 238, ...: the stream is
\* not good, or sscanf assigned fewer values than the field has
FieldRejected(good, vals, k) == ~good \/ Len(vals) # Fields[k].n

\* lines 229-340: the fields from k on
RECURSIVE ReadFields(_, _, _, _)
ReadFields(c, f, k, prev) ==
  IF k > Len(Fields)
  THEN [cam |-> ReadScanDir(c, f, prev), err |-> NoErr]
  ELSE Bind(GetLine(f, k + 2, prev), LAMBDA g :
         Bind(IF g.good THEN Sscanf(g.line, Fields[k].key, Fields[k].n) ELSE <<>>,
              LAMBDA vals :
           Bind(Assign(c, k, vals), LAMBDA c1 :
             IF FieldRejected(g.good, vals, k)
             THEN [cam |-> c1, err |-> IOErr(Fields[k].msg)]
             ELSE ReadFields(c1, f, k + 1, g.line))))

\* line 214: the first line holds the text VERSION
HasVersionText(line) ==
  \E i \in 1..Len(line) : line[i].w \in {"VERSION", "VERSION_"}

\* lines 218-219: sscanf(line, "VERSION_%d", &file_version)
FileVersion(line) ==
  IF Len(line) >= 1 /\ line[1].w = "VERSION_"
  THEN Bind(ScanNumber(line[1].c), LAMBDA r : IF r.ok THEN r.val ELSE 1)
  ELSE 1

\* the oldest version read accepts, line 220
MinVersion == 4

\* the version write emits, line 356
WrittenVersion == 4

\* the version test off by one
VersionRejectedThrough(v) == v <= MinVersion

VersionRejected(v) == v < MinVersion

NoFile == <<[w |-> "no file", c |-> <<>>]>>

\* lines 203-340
read(c, f) ==
  IF f = NoFile
  THEN [cam |-> c,
        err |-> IOErr("OpticalBarModel::read_file: Could not open file")]
  ELSE
    LET l1 == GetLine(f, 1, <<>>)
        l2 == GetLine(f, 2, l1.line)
    IN  IF ~HasVersionText(l1.line)
        THEN [cam |-> c,
              err |-> IOErr("OpticalBarModel::read_file(): Version missing!")]
        ELSE IF VersionRejected(FileVersion(l1.line))
        THEN [cam |-> c,
              err |-> ArgumentErr(
                "OpticalBarModel::read_file(): Versions prior to 4 are not supported!")]
        ELSE IF ~(\E i \in 1..Len(l2.line) : l2.line[i].w = "OPTICAL_BAR")
        THEN [cam |-> c,
              err |-> ArgumentErr(
                "OpticalBarModel::read_file: Expected OPTICAL_BAR type")]
        ELSE ReadFields(c, f, 1, l2.line)

\* the two directions written the other way round
ScanDirLineSwapped(c) ==
  IF c.scan_left_to_right
  THEN <<Word("scan_dir"), Word("="), Word("left")>>
  ELSE <<Word("scan_dir"), Word("="), Word("right")>>

\* the scan_dir line write emits, lines 386-389
ScanDirLine(c) ==
  IF c.scan_left_to_right
  THEN <<Word("scan_dir"), Word("="), Word("right")>>
  ELSE <<Word("scan_dir"), Word("="), Word("left")>>

\* the iR line write emits, lines 371-377
RotationLine(c) ==
  Bind(rotation_matrix(camera_pose(c, <<0, 0>>)), LAMBDA m :
    <<Word("iR"), Word("="),
      Fmt(m[1][1]), Fmt(m[1][2]), Fmt(m[1][3]),
      Fmt(m[2][1]), Fmt(m[2][2]), Fmt(m[2][3]),
      Fmt(m[3][1]), Fmt(m[3][2]), Fmt(m[3][3])>>)

\* lines 356-389: the text write emits
write(c) ==
  << <<[w |-> "VERSION_", c |-> NatToChars(WrittenVersion)]>>,
     <<Word("OPTICAL_BAR")>>,
     <<Word("image_size"), Word("="), Fmt(c.image_size[1]), Fmt(c.image_size[2])>>,
     <<Word("image_center"), Word("="), Fmt(c.center_loc_pixels[1]),
       Fmt(c.center_loc_pixels[2])>>,
     <<Word("pitch"), Word("="), Fmt(c.pixel_size)>>,
     <<Word("f"), Word("="), Fmt(c.focal_length)>>,
     <<Word("scan_angle"), Word("="), Fmt(c.scan_angle_radians)>>,
     <<Word("scan_rate"), Word("="), Fmt(c.scan_rate_radians)>>,
     <<Word("forward_tilt"), Word("="), Fmt(c.forward_tilt_radians)>>,
     <<Word("iC"), Word("="), Fmt(c.initial_position[1]),
       Fmt(c.initial_position[2]), Fmt(c.initial_position[3])>>,
     RotationLine(c),
     <<Word("speed"), Word("="), Fmt(c.speed)>>,
     <<Word("mean_earth_radius"), Word("="), Fmt(c.mean_earth_radius)>>,
     <<Word("mean_surface_elevation"), Word("="), Fmt(c.mean_surface_elevation)>>,
     <<Word("use_motion_compensation"), Word("="), Fmt(c.use_motion_compensation)>>,
     ScanDirLine(c) >>

(**************************  the state machine  ****************************)
\* cam     the parameter set of the camera
\* file    the text at the path read and write use, or NoFile
\* out     the last operation: its name, argument, result, error and the
\*         calls it made to external collaborators
\* old     the parameter set before the last operation
\* base    the parameter set after the last load or construction
\* damage  the edit made to a field line of the file since it was written
\* ver     the version number the first line of the file carries
\*         (-1: no number that parses, -2: no version text)
\* nxf     the number of transforms applied

Orientations ==
  { [axis |-> <<0, 0, 0>>, deg |-> 0], [axis |-> <<0, 0, 1>>, deg |-> 270] }

CamTemplate ==
  [image_size |-> <<3, 2>>, center_loc_pixels |-> <<1, 1>>, pixel_size |-> 1,
   focal_length |-> 2, scan_angle_radians |-> 2, scan_rate_radians |-> 1,
   forward_tilt_radians |-> 0, initial_position |-> <<3, 0, 0>>,
   initial_orientation |-> [axis |-> <<0, 0, 0>>, deg |-> 0], speed |-> 1,
   mean_earth_radius |-> 2, mean_surface_elevation |-> 0,
   use_motion_compensation |-> 0, scan_left_to_right |-> TRUE,
   correct_atmospheric_refraction |-> FALSE,
   correct_velocity_aberration |-> FALSE]

\* the parameter sets the projection operations start from
ProjCams ==
  { [CamTemplate EXCEPT
       !.image_size = sz, !.scan_left_to_right = dir,
       !.use_motion_compensation = umc, !.speed = sp,
       !.mean_surface_elevation = el, !.initial_orientation = ori,
       !.scan_angle_radians = tm[1], !.scan_rate_radians = tm[2],
       !.correct_atmospheric_refraction = atm,
       !.correct_velocity_aberration = vel] :
      sz \in {<<3, 2>>, <<4, 2>>}, dir \in BOOLEAN, umc \in {0, 1},
      tm \in {<<2, 1>>, <<1, 2>>},
      sp \in {0, 1}, el \in {0, 1, 2}, ori \in Orientations,
      atm \in BOOLEAN, vel \in BOOLEAN }

\* the parameter sets the behaviours that apply transforms start from
FullCams ==
  { [CamTemplate EXCEPT
       !.image_size = <<2, 1>>, !.center_loc_pixels = <<0, 0>>,
       !.scan_left_to_right = dir, !.speed = sp,
       !.mean_surface_elevation = el, !.initial_orientation = ori] :
      dir \in BOOLEAN, sp \in {0, 1}, el \in {0, 1}, ori \in Orientations }

\* the parameter sets the codec starts from
CodecCams ==
  { [CamTemplate EXCEPT
       !.image_size = g1[1], !.center_loc_pixels = g1[2],
       !.pixel_size = g1[3], !.focal_length = g1[4],
       !.scan_angle_radians = g1[5], !.scan_rate_radians = g1[6],
       !.forward_tilt_radians = g1[7],
       !.initial_position = g3[1], !.speed = g3[2],
       !.mean_earth_radius = g3[3], !.mean_surface_elevation = g3[4],
       !.initial_orientation = ori,
       !.use_motion_compensation = umc, !.scan_left_to_right = dir] :
      g1 \in { <<<<3, 2>>, <<1, 1>>, 1, 2, 2, 1, 0>>,
               <<<<1000, 500>>, <<-5, 12>>, 10, 37, 4, 2, 3>> },
      g3 \in { <<<<3, 0, 0>>, 1, 2, 0>>, <<<<-70, 0, 105>>, -9, 64, -1>> },
      ori \in Orientations \cup { [axis |-> <<1, -1, 1>>, deg |-> 120] },
      umc \in {0, 1, 2}, dir \in BOOLEAN }

\* a camera object that holds another parameter set, for a file to be read
\* into: each of its fields differs from the field of every parameter set the
\* codec starts from
Unloaded ==
  [image_size |-> <<2, 1>>, center_loc_pixels |-> <<0, 0>>, pixel_size |-> 3,
   focal_length |-> 5, scan_angle_radians |-> 6, scan_rate_radians |-> 3,
   forward_tilt_radians |-> 1, initial_position |-> <<0, 4, 0>>,
   initial_orientation |-> [axis |-> <<1, 0, 0>>, deg |-> 90], speed |-> 2,
   mean_earth_radius |-> 3, mean_surface_elevation |-> 4,
   use_motion_compensation |-> 5, scan_left_to_right |-> TRUE,
   correct_atmospheric_refraction |-> FALSE,
   correct_velocity_aberration |-> FALSE]

Pixels(c) == (0..(c.image_size[1] - 1)) \X (0..(c.image_size[2] - 1))
Faults == {"none", "uncorrected", "atmospheric_refraction", "velocity_aberration"}
Points == { <<2, 0, 0>> }
Solutions == { <<1, 1>> }
Rotations == { rotation_z_axis(0), rotation_z_axis(1) }
\* a translation and a scale
Moves == { << <<0, 0, 0>>, 1 >>, << <<1, 0, -1>>, 2 >> }

NoDamage == [field |-> "none", kind |-> "none"]
NoOp == [op |-> "none", arg |-> <<>>, ret |-> <<>>, err |-> NoErr, calls |-> <<>>]

\* calls are made one at a time: the caller holds no result of an earlier
\* call
Idle == out = NoOp

\* the caller takes the result of the last call
Return ==
  /\ ~Idle
  /\ out' = NoOp
  /\ old' = cam
  /\ UNCHANGED <<cam, file, base, damage, ver, nxf>>

InitWith(cams) ==
  /\ cam \in cams
  /\ file = NoFile
  /\ out = NoOp
  /\ old = cam
  /\ base = cam
  /\ damage = NoDamage
  /\ ver = -2
  /\ nxf = 0

Init == InitWith(FullCams)
InitProj == InitWith(ProjCams)
InitCodec == InitWith(CodecCams)

PixelToVector ==
  /\ Idle
  /\ \E pixel \in Pixels(cam), fault \in Faults :
    \E r \in {pixel_to_vector(cam, pixel, fault)} :
        /\ out' = [op |-> "pixel_to_vector", arg |-> <<pixel, fault>>,
                   ret |-> r.ret, err |-> r.err, calls |-> r.calls]
        /\ old' = cam
        /\ UNCHANGED <<cam, file, base, damage, ver, nxf>>

PointToPixel ==
  /\ Idle
  /\ \E point \in Points, status \in -1..MaxStatus, solution \in Solutions :
    \E r \in {point_to_pixel(cam, point, status, solution)} :
        /\ out' = [op |-> "point_to_pixel", arg |-> <<point, status, solution>>,
                   ret |-> r.ret, err |-> r.err, calls |-> r.calls]
        /\ old' = cam
        /\ UNCHANGED <<cam, file, base, damage, ver, nxf>>

PixelToTimeDelta ==
  /\ Idle
  /\ \E pixel \in Pixels(cam) :
    /\ out' = [op |-> "pixel_to_time_delta", arg |-> pixel,
               ret |-> pixel_to_time_delta(cam, pixel), err |-> NoErr,
               calls |-> <<>>]
    /\ old' = cam
    /\ UNCHANGED <<cam, file, base, damage, ver, nxf>>

CameraCenter ==
  /\ Idle
  /\ \E pixel \in Pixels(cam) :
    /\ out' = [op |-> "camera_center", arg |-> pixel,
               ret |-> camera_center(cam, pixel), err |-> NoErr, calls |-> <<>>]
    /\ old' = cam
    /\ UNCHANGED <<cam, file, base, damage, ver, nxf>>

CameraPose ==
  /\ Idle
  /\ \E pixel \in Pixels(cam) :
    /\ out' = [op |-> "camera_pose", arg |-> pixel,
               ret |-> camera_pose(cam, pixel), err |-> NoErr, calls |-> <<>>]
    /\ old' = cam
    /\ UNCHANGED <<cam, file, base, damage, ver, nxf>>

ApplyTransform ==
  /\ Idle
  /\ \E rotation \in Rotations, move \in Moves :
    /\ nxf < MaxTransforms
    /\ cam' = apply_transform(cam, rotation, move[1], move[2])
    /\ out' = [op |-> "apply_transform", arg |-> <<rotation, move[1], move[2]>>,
               ret |-> <<>>, err |-> NoErr, calls |-> <<>>]
    /\ old' = cam
    /\ nxf' = nxf + 1
    /\ UNCHANGED <<file, base, damage, ver>>

\* lines 343-391; opened tells whether the path could be opened
Write ==
  /\ Idle
  /\ \E opened \in BOOLEAN :
    /\ IF opened
       THEN /\ file' = write(cam)
            /\ damage' = NoDamage
            /\ ver' = WrittenVersion
            /\ out' = [op |-> "write", arg |-> <<>>, ret |-> <<>>, err |-> NoErr,
                       calls |-> <<>>]
       ELSE /\ UNCHANGED <<file, damage, ver>>
            /\ out' = [op |-> "write", arg |-> <<>>, ret |-> <<>>,
                       err |-> IOErr("OpticalBarModel::write: Could not open file"),
                       calls |-> <<>>]
    /\ old' = cam
    /\ UNCHANGED <<cam, base, nxf>>

\* lines 203-340; the file is read into the camera itself, or into another
\* camera object that takes its place
Read ==
  /\ Idle
  /\ \E target \in {cam, Unloaded} :
    \E r \in {read(target, file)} :
      /\ cam' = r.cam
      /\ base' = r.cam
      /\ out' = [op |-> "read", arg |-> <<target>>, ret |-> <<>>, err |-> r.err,
                 calls |-> <<>>]
      /\ old' = cam
      /\ UNCHANGED <<file, damage, ver, nxf>>

(*********************  edits of the file by its owner  ********************)
FieldNames ==
  [k \in 1..(Len(Fields) + 1) |->
     IF k <= Len(Fields) THEN Fields[k].key ELSE "scan_dir"]

Pristine == Idle /\ file # NoFile /\ damage = NoDamage /\ ver = WrittenVersion

RemoveAt(f, i) == SubSeq(f, 1, i - 1) \o SubSeq(f, i + 1, Len(f))

EditFile(f, k, kind) ==
  /\ file' = f
  /\ damage' = [field |-> FieldNames[k], kind |-> kind]
  /\ UNCHANGED <<cam, out, old, base, ver, nxf>>

\* the line of field k is deleted
DeleteLine ==
  /\ Pristine
  /\ \E k \in 1..(Len(Fields) + 1) :
      EditFile(RemoveAt(file, k + 2), k, "missing")

\* the line of field k changes places with the line after it
SwapLines ==
  /\ Pristine
  /\ \E k \in 1..Len(Fields) :
      EditFile([file EXCEPT ![k + 2] = file[k + 3], ![k + 3] = file[k + 2]],
                k, "out of order")

\* the key of field k is misspelt
BreakKey ==
  /\ Pristine
  /\ \E k \in 1..(Len(Fields) + 1) :
      EditFile([file EXCEPT ![k + 2][1] = Word("bogus")], k, "malformed")

\* one value of field k is not a number (for scan_dir: not a direction)
BreakValue ==
  /\ Pristine
  /\ \E k \in 1..(Len(Fields) + 1), j \in 3..11 :
      /\ j <= Len(file[k + 2])
      /\ EditFile([file EXCEPT ![k + 2][j] = Word("abc")], k, "malformed")

\* the last value of field k is missing
DropValue ==
  /\ Pristine
  /\ \E k \in 1..(Len(Fields) + 1) :
      EditFile([file EXCEPT ![k + 2] = SubSeq(@, 1, Len(@) - 1)], k, "malformed")

\* the first line carries version v
SetVersion ==
  \E v \in 0..MaxVersion :
    /\ Pristine
    /\ file' = [file EXCEPT ![1] = <<[w |-> "VERSION_", c |-> NatToChars(v)]>>]
    /\ ver' = v
    /\ UNCHANGED <<cam, out, old, base, damage, nxf>>

\* the first line carries no version number, or no version text at all
StripVersion ==
  \E t \in { [w |-> "VERSION_", c |-> <<>>], [w |-> "VERSION", c |-> <<"4">>],
             [w |-> "VERSION_", c |-> <<"x", "4">>], Word("bogus") } :
    /\ Pristine
    /\ file' = [file EXCEPT ![1] = <<t>>]
    /\ ver' = IF t = Word("bogus") THEN -2 ELSE -1
    /\ UNCHANGED <<cam, out, old, base, damage, nxf>>

Next ==
  \/ PixelToVector
  \/ PointToPixel
  \/ PixelToTimeDelta
  \/ CameraCenter
  \/ CameraPose
  \/ ApplyTransform
  \/ Write
  \/ Read
  \/ Return

Spec == Init /\ [][Next]_vars

NextProj ==
  \/ PixelToVector
  \/ PointToPixel
  \/ PixelToTimeDelta
  \/ CameraCenter
  \/ CameraPose
  \/ Return

SpecProj == InitProj /\ [][NextProj]_vars

NextCodec ==
  \/ Write
  \/ Read
  \/ DeleteLine
  \/ SwapLines
  \/ BreakKey
  \/ BreakValue
  \/ DropValue
  \/ SetVersion
  \/ StripVersion
  \/ Return

SpecCodec == InitCodec /\ [][NextCodec]_vars

(*******************************  claims  **********************************)
\* the fields write persists, the orientation as the rotation it stands for
Persisted(c) ==
  <<c.image_size, c.center_loc_pixels, c.pixel_size, c.focal_length,
    c.scan_angle_radians, c.scan_rate_radians, c.forward_tilt_radians,
    c.initial_position, rotation_matrix(axis_angle_to_quaternion(c.initial_orientation)),
    c.speed, c.mean_earth_radius, c.mean_surface_elevation,
    c.use_motion_compensation, c.scan_left_to_right>>

\* the sensor and timing fields
SensorFields(c) ==
  <<c.image_size, c.center_loc_pixels, c.pixel_size, c.focal_length,
    c.scan_angle_radians, c.scan_rate_radians, c.forward_tilt_radians,
    c.speed, c.mean_earth_radius, c.mean_surface_elevation,
    c.use_motion_compensation, c.scan_left_to_right>>

\* the read just made was of the text write emits for the parameter set
\* the camera held before it
ReadOfWritten ==
  /\ out.op = "read"
  /\ damage = NoDamage
  /\ ver = WrittenVersion
  /\ file = write(old)

\* C1: reading the file that write emits for a parameter set P, into the
\* camera that wrote it or into another camera object, yields P in every
\* persisted field (the orientation as a rotation), for both scan directions
\* and every value of use_motion_compensation.
C1_RoundTrip ==
  ReadOfWritten => out.err = NoErr /\ Persisted(cam) = Persisted(old)

C1_Witness ==
  /\ ReadOfWritten
  /\ out.arg[1] = Unloaded
  /\ ~old.scan_left_to_right
  /\ old.use_motion_compensation = 1
  /\ old.initial_orientation.deg = 270
  /\ old.initial_position[1] < 0
  /\ out.err = NoErr

\* the field an error message of read names
FieldOfMessage(msg) ==
  CASE msg = "OpticalBarModel::read_file(): Could not read the image size" -> "image_size"
    [] msg = "OpticalBarModel::read_file(): Could not read the image center" -> "image_center"
    [] msg = "OpticalBarModel::read_file(): Could not read the pixel pitch" -> "pitch"
    [] msg = "OpticalBarModel::read_file(): Could not read the focal_length" -> "f"
    [] msg = "OpticalBarModel::read_file(): Could not read the scan angle" -> "scan_angle"
    [] msg = "OpticalBarModel::read_file(): Could not read the scan rate" -> "scan_rate"
    [] msg = "OpticalBarModel::read_file(): Could not read the forward tilt angle" -> "forward_tilt"
    [] msg = "OpticalBarModel::read_file(): Could not read the initial position" -> "iC"
    [] msg = "PinholeModel::read_file(): Could not read the rotation matrix" -> "iR"
    [] msg = "OpticalBarModel::read_file(): Could not read the speed" -> "speed"
    [] msg = "OpticalBarModel::read_file(): Could not read the mean earth radius" -> "mean_earth_radius"
    [] msg = "OpticalBarModel::read_file(): Could not read the mean surface elevation" -> "mean_surface_elevation"
    [] msg = "OpticalBarModel::read_file(): Could not read use motion compensation" -> "use_motion_compensation"
    [] OTHER -> "no field"

\* the read just made was of a file with one field line missing, malformed
\* or out of order
ReadOfDamaged == out.op = "read" /\ damage # NoDamage

\* C2 as stated: a file with any one field line (scan_dir among them)
\* missing, malformed or out of order makes read fail with an error that
\* names that field.
C2_StrictParsing ==
  ReadOfDamaged =>
    out.err # NoErr /\ FieldOfMessage(out.err.msg) = damage.field

\* C2 as amended: for every field line but scan_dir, a line that is missing,
\* out of order or does not match its pattern makes read fail with an IOErr
\* that names that field; the scan_dir line is not validated: a missing or
\* malformed scan_dir line reads as scan_left_to_right = TRUE.
C2_StrictParsingButScanDir ==
  ReadOfDamaged =>
    IF damage.field = "scan_dir"
    THEN out.err = NoErr /\ cam.scan_left_to_right
    ELSE /\ out.err.kind = "IOErr"
         /\ FieldOfMessage(out.err.msg) = damage.field
         /\ cam.scan_left_to_right = out.arg[1].scan_left_to_right

C2_Witness ==
  /\ ReadOfDamaged
  /\ damage.field = "iR"
  /\ damage.kind = "out of order"
  /\ out.err.kind = "IOErr"

\* an error of the configuration / format kind: raised on the contents of
\* an opened file
ConfigurationError(e) ==
  /\ e.kind \in {"IOErr", "ArgumentErr"}
  /\ e.msg # "OpticalBarModel::read_file: Could not open file"

\* the read just made was of a file whose lines after the first are all
\* present and well-formed
ReadOfVersioned == out.op = "read" /\ file # NoFile /\ damage = NoDamage

\* C3: with the remaining lines well-formed, read succeeds exactly when the
\* first line carries a version number n >= 4; otherwise it fails with a
\* configuration / format error and no field is assigned.
C3_VersionGate ==
  ReadOfVersioned =>
    /\ out.err = NoErr <=> ver >= 4
    /\ ver < 4 => ConfigurationError(out.err) /\ cam = out.arg[1]

C3_Witness ==
  /\ ReadOfVersioned
  /\ ver = 3
  /\ out.err.kind = "ArgumentErr"

CallNames == [i \in 1..Len(out.calls) |-> out.calls[i].fn]

\* C5 as stated: each correction is invoked exactly when its flag is set,
\* the atmospheric one first and feeding the velocity one, and with both
\* flags cleared the uncorrected ray is returned unchanged.
C5_CorrectionGating ==
  (out.op = "pixel_to_vector" /\ out.arg[2] = "none") =>
    /\ CallNames =
         (IF cam.correct_atmospheric_refraction
          THEN <<"atmospheric_refraction">> ELSE <<>>) \o
         (IF cam.correct_velocity_aberration
          THEN <<"velocity_aberration">> ELSE <<>>)
    /\ out.ret.applied = CallNames
    /\ Len(out.calls) = 2 =>
         out.calls[2].ray.applied = <<"atmospheric_refraction">>

\* a stage of pixel_to_vector raised: the fault names the uncorrected
\* projection, or a correction that was called
StageRaised ==
  \/ out.arg[2] = "uncorrected"
  \/ \E i \in 1..Len(out.calls) : out.calls[i].fn = out.arg[2]

C7_PointToPixel ==
  out.op = "point_to_pixel" =>
    /\ Len(out.calls) = 1
    /\ out.calls[1].fn = "levenberg_marquardt"
    /\ \A i \in 1..2 :
         2 * out.calls[1].start[i].n = cam.image_size[i] * out.calls[1].start[i].d
    /\ IF out.arg[2] > 0
       THEN out.err = NoErr /\ out.ret = out.arg[3]
       ELSE out.err.kind = "PointToPixelErr" /\ out.ret = NoValue

C7_Witness ==
  /\ out.op = "point_to_pixel"
  /\ out.arg[2] = 0
  /\ cam.image_size[1] = 3
  /\ out.err.kind = "PointToPixelErr"

\* the parameter set satisfies the invariants of the timing computation
TimingInvariants(c) ==
  c.image_size[1] > 1 /\ c.scan_angle_radians > 0 /\ c.scan_rate_radians > 0

\* C8: the time of a pixel grows with the column when the scan runs left to
\* right and falls when it runs right to left, is 0 at the first scanned
\* column and scan_angle / scan_rate at the last, and ignores the row.
C8_MonotonicTiming ==
  (out.op = "pixel_to_time_delta" /\ TimingInvariants(cam)) =>
    LET col == out.arg[1]
        last == cam.image_size[1] - 1
        first_scanned == IF cam.scan_left_to_right THEN 0 ELSE last
        last_scanned == IF cam.scan_left_to_right THEN last ELSE 0
    IN  /\ \A p \in Pixels(cam) :
             /\ col <= p[1] =>
                  IF cam.scan_left_to_right
                  THEN RatLeq(out.ret, pixel_to_time_delta(cam, p))
                  ELSE RatLeq(pixel_to_time_delta(cam, p), out.ret)
             /\ col = p[1] => pixel_to_time_delta(cam, p) = out.ret
        /\ col = first_scanned => out.ret.n = 0
        /\ col = last_scanned =>
             out.ret.n * cam.scan_rate_radians = cam.scan_angle_radians * out.ret.d

C8_Witness ==
  /\ out.op = "pixel_to_time_delta"
  /\ TimingInvariants(cam)
  /\ ~cam.scan_left_to_right
  /\ out.arg = <<1, 1>>
  /\ out.ret.d = 4

\* C9: the projections, camera_center, camera_pose and write change no
\* field; apply_transform changes only initial_position and
\* initial_orientation; the sensor and timing fields keep the values of the
\* last load or construction.
C9_MutationFrame ==
  /\ out.op \in {"pixel_to_vector", "point_to_pixel", "camera_center",
                 "camera_pose", "write"} => cam = old
  /\ out.op = "apply_transform" =>
       /\ SensorFields(cam) = SensorFields(old)
       /\ cam.correct_atmospheric_refraction = old.correct_atmospheric_refraction
       /\ cam.correct_velocity_aberration = old.correct_velocity_aberration
  /\ SensorFields(cam) = SensorFields(base)

C9_Witness ==
  /\ out.op = "apply_transform"
  /\ out.arg[3] = 2
  /\ cam.initial_position # old.initial_position
  /\ cam.initial_orientation # old.initial_orientation

\* the camera of the pixel is at or below the datum: H <= 0
BelowDatum(c, pixel) ==
  LET ctr == camera_center(c, pixel)
      k == c.mean_earth_radius + c.mean_surface_elevation
  IN  k >= 0 /\ Dot(ctr.num, ctr.num) <= k * k * ctr.den * ctr.den

\* C10 as stated: with the camera at or below the datum, pixel_to_vector
\* signals an error or returns a ray whose components are all defined.
C10_BelowDatumGuard ==
  (out.op = "pixel_to_vector" /\ BelowDatum(cam, out.arg[1])) =>
    \/ out.err # NoErr
    \/ Defined(out.ret.dir)

====
